---- MODULE Spec2Model ----
(***************************************************************************)
(* State-machine model of the SSRN conference scraper (ssrn_scraper.py):   *)
(* the Record Merger (merge_scraped_into_existing), the four passes of the *)
(* Pass Orchestrator over the persistent store conferences.json, and the   *)
(* text functions of a detail page visit (scrape_detail_page with the two  *)
(* extraction cascades) and of the entry filter (is_non_conference).       *)
(*                                                                         *)
(* Representation of Python values:                                        *)
(*   - an ISO date string "YYYY-MM-DD" is the integer YYYY*10000+MM*100+DD *)
(*     (IsoDate); the empty string is EmptyDate, "TBD" is TBD, None (or an *)
(*     absent dict key) is NoneVal.  s.endswith("-01") is then s % 100 = 1.*)
(*   - free text that the code matches with regular expressions (listing   *)
(*     dates, display strings) is a sequence of tokens: a number, a word   *)
(*     or a punctuation mark; white space is dropped by the tokenisation.  *)
(*   - other strings (name, location, sid, links) are TLA+ strings; the    *)
(*     substring tests the code makes on them are tabulated in Substrings. *)
(*   - the text of a detail page is a sequence of lines, each a keyword    *)
(*     phrase followed by a date given as tokens.                          *)
(***************************************************************************)
EXTENDS Integers, Sequences, FiniteSets, TLC

NoneVal == -2
TBD == -1
EmptyDate == 0

\* ---------------------------------------------------------------- bounds
MaxBatch == 2
MaxOps == 2

\* ---------------------------------------------------------------- tokens
N(n) == [k |-> "n", n |-> n, w |-> ""]
W(w) == [k |-> "w", n |-> 0, w |-> w]
P(p) == [k |-> "p", n |-> 0, w |-> p]

\* \d{1,2}
IsD12(t) == t.k = "n" /\ t.n >= 0 /\ t.n <= 99
\* \d{4}
IsD4(t) == t.k = "n" /\ t.n >= 1000 /\ t.n <= 9999
\* \w+   (digits are word characters too)
IsWord(t) == t.k \in {"n", "w"}
IsDash(t) == t.k = "p" /\ t.w = "-"

\* ---------------------------------------------------------------- dates
MONTH_MAP ==
  [jan |-> 1, feb |-> 2, mar |-> 3, apr |-> 4, may |-> 5, jun |-> 6,
   jul |-> 7, aug |-> 8, sep |-> 9, oct |-> 10, nov |-> 11, dec |-> 12]

\* w.lower()[:3] and w[:3] of the words that occur in the modelled texts.
Lower3(w) ==
  CASE w \in {"Jul", "July"} -> "jul"
    [] w = "Aug" -> "aug"
    [] w = "Feb" -> "feb"
    [] w = "March" -> "mar"
    [] w = "TBA" -> "tba"

First3(w) ==
  CASE w \in {"Jul", "July"} -> "Jul"
    [] w = "Aug" -> "Aug"
    [] w = "Feb" -> "Feb"
    [] w = "March" -> "Mar"
    [] w = "TBA" -> "TBA"

\* MONTH_MAP.get(m.lower()[:3]) for the token m matched by (\w+)
MonthOf(t) ==
  IF t.k = "w" /\ Lower3(t.w) \in DOMAIN MONTH_MAP
    THEN MONTH_MAP[Lower3(t.w)]
    ELSE NoneVal

\* f"{y}-{month:02d}-{d:02d}"
IsoDate(y, m, d) == y * 10000 + m * 100 + d

\* s.endswith("-01") on an ISO date string
EndsWith01(iso) == iso > 0 /\ iso % 100 = 1

\* Python truthiness of a date-valued field: not None and not ""
Truthy(x) == x # NoneVal /\ x # EmptyDate

\* re.match of the range pattern  D Mon YYYY - D Mon YYYY  at the start
MatchRange(ts) ==
  /\ Len(ts) >= 7
  /\ IsD12(ts[1]) /\ IsWord(ts[2]) /\ IsD4(ts[3]) /\ IsDash(ts[4])
  /\ IsD12(ts[5]) /\ IsWord(ts[6]) /\ IsD4(ts[7])

\* re.match of the single-date pattern  D Mon YYYY  at the start
MatchSingle(ts) ==
  /\ Len(ts) >= 3
  /\ IsD12(ts[1]) /\ IsWord(ts[2]) /\ IsD4(ts[3])

parse_conf_dates(date_str) ==
  IF date_str = <<>> THEN [start |-> EmptyDate, display |-> <<>>]
  ELSE IF /\ MatchRange(date_str)
          /\ MonthOf(date_str[2]) # NoneVal
          /\ MonthOf(date_str[6]) # NoneVal
    THEN [start |-> IsoDate(date_str[3].n, MonthOf(date_str[2]), date_str[1].n),
          display |->
            IF First3(date_str[2].w) = First3(date_str[6].w)
              THEN <<W(First3(date_str[2].w)), N(date_str[1].n), P("-"),
                     N(date_str[5].n)>>
              ELSE <<W(First3(date_str[2].w)), N(date_str[1].n), P("-"),
                     W(First3(date_str[6].w)), N(date_str[5].n)>>]
  ELSE IF MatchSingle(date_str) /\ MonthOf(date_str[2]) # NoneVal
    THEN [start |-> IsoDate(date_str[3].n, MonthOf(date_str[2]), date_str[1].n),
          display |-> <<W(First3(date_str[2].w)), N(date_str[1].n)>>]
  ELSE [start |-> EmptyDate, display |-> date_str]

\* ---------------------------------------------------------------- strings
\* For each modelled string, the lower-cased phrases, among those the code
\* searches for, that it contains ("kw in s.lower()").
Substrings(s) ==
  CASE s = "Winter Finance Workshop" -> {"finance", "winter finance", "workshop"}
    [] s = "Accounting Symposium" -> {"accounting", "symposium"}
    [] s = "Macroeconomics Day" -> {"macroeconom", "economic", "economics"}
    [] s = "PhD Workshop" -> {"phd", "workshop"}
    [] s = "2026 Winter Finance Workshop for PhD Students" ->
         {"finance", "winter finance", "workshop", "phd"}
    [] s = "Postdoctoral Research Associate Position" ->
         {"postdoctoral", "research associate"}
    [] s = "Governance Award Symposium" -> {"award", "symposium"}
    [] s = "Summer School and Workshop on Asset Pricing" ->
         {"summer school", "workshop"}
    [] s = "Summer School Conference on Banking" ->
         {"summer school", "conference"}
    [] s = "Paris, France" -> {"france", "paris"}
    [] s = "London" -> {"london"}
    [] s = "Boston, MA" -> {"MA"}
    [] s = "Online" -> {"online"}
    [] OTHER -> {}

Contains(s, kw) == kw \in Substrings(s)

\* ---------------------------------------------------------------- country
\* The entries of country_keywords and INTERNATIONAL_CITIES that the modelled
\* locations can hit, in dictionary order.
country_keywords ==
  << <<"united kingdom", "UK">>, <<"united states", "USA">>,
     <<"germany", "Germany">>, <<"france", "France">> >>

INTERNATIONAL_CITIES ==
  << <<"london", "UK">>, <<"oxford", "UK">>, <<"paris", "France">> >>

US_STATES == {"MA", "NY", "CA"}

FirstHit(table, loc) ==
  LET hits == {i \in DOMAIN table : Contains(loc, table[i][1])}
  IN IF hits = {} THEN ""
     ELSE table[CHOOSE i \in hits : \A j \in hits : i <= j][2]

detect_country(location) ==
  IF location = "" THEN "Unknown"
  ELSE IF FirstHit(country_keywords, location) # ""
    THEN FirstHit(country_keywords, location)
  ELSE IF FirstHit(INTERNATIONAL_CITIES, location) # ""
    THEN FirstHit(INTERNATIONAL_CITIES, location)
  ELSE IF \E st \in US_STATES : Contains(location, st) THEN "USA"
  ELSE IF \E v \in {"virtual", "online", "zoom", "remote"} : Contains(location, v)
    THEN "Virtual"
  ELSE "Unknown"

\* ---------------------------------------------------------------- disciplines
\* A category is the sequence of network names joined by "," in the code.
InCat(category, net) == \E i \in DOMAIN category : category[i] = net

DiscSet(category, name) ==
  (IF InCat(category, "Finance") THEN {"fin"} ELSE {})
  \cup (IF InCat(category, "Accounting") THEN {"acct"} ELSE {})
  \cup (IF InCat(category, "Economics") THEN {"econ"} ELSE {})
  \cup (IF Contains(name, "accounting") THEN {"acct"} ELSE {})
  \cup (IF \E w \in {"economics", "economic", "macroeconom"} : Contains(name, w)
          THEN {"econ"} ELSE {})
  \cup (IF Contains(name, "finance") THEN {"fin"} ELSE {})

\* sorted(discs) if discs else ["fin"]
detect_disciplines(category, name) ==
  IF DiscSet(category, name) = {} THEN <<"fin">>
  ELSE SelectSeq(<<"acct", "econ", "fin">>,
                 LAMBDA d : d \in DiscSet(category, name))

\* ---------------------------------------------------------------- page text
\* The text of a detail page is a sequence of lines.  A line is a keyword
\* phrase followed at once by a date, the date being a token sequence: no
\* pattern's filler (.{0,60}?, [^,\n]{0,40}?) reaches over the line break, so
\* a pattern matches inside one line, and which patterns match a line is
\* settled by the line's keyword and the shape of its date.
Line(kw, date) == [kw |-> kw, date |-> date]

IsComma(t) == t.k = "p" /\ t.w = ","
IsSlash(t) == t.k = "p" /\ t.w = "/"

\* the year token of  A B[,] YYYY
YearTok(ts) == IF IsComma(ts[3]) THEN ts[4] ELSE ts[3]

\* A B[,] YYYY with the comma optional
IsABY(ts) ==
  \/ Len(ts) = 3 /\ IsD4(ts[3])
  \/ Len(ts) = 4 /\ IsComma(ts[3]) /\ IsD4(ts[4])

\* (\w+\s+\d{1,2},?\s+\d{4})
IsMDY(ts) == IsABY(ts) /\ IsWord(ts[1]) /\ IsD12(ts[2])
\* (\d{1,2}\s+\w+,?\s+\d{4})
IsDMY(ts) == IsABY(ts) /\ IsD12(ts[1]) /\ IsWord(ts[2])
\* (\d{1,2}/\d{1,2}/\d{4})
IsSlashDate(ts) ==
  /\ Len(ts) = 5
  /\ IsD12(ts[1]) /\ IsSlash(ts[2]) /\ IsD12(ts[3]) /\ IsSlash(ts[4]) /\ IsD4(ts[5])
\* (\d{4}-\d{2}-\d{2})
IsIsoText(ts) ==
  /\ Len(ts) = 5
  /\ IsD4(ts[1]) /\ IsDash(ts[2]) /\ IsD12(ts[3]) /\ IsDash(ts[4]) /\ IsD12(ts[5])

\* lines 123-151.  No branch checks the month number or the day against the
\* calendar.
parse_date_flexible(ts) ==
  IF ts = <<>> THEN NoneVal
  ELSE IF IsIsoText(ts) THEN IsoDate(ts[1].n, ts[3].n, ts[5].n)
  ELSE IF IsSlashDate(ts) THEN IsoDate(ts[5].n, ts[1].n, ts[3].n)
  ELSE IF IsMDY(ts) /\ MonthOf(ts[1]) # NoneVal
    THEN IsoDate(YearTok(ts).n, MonthOf(ts[1]), ts[2].n)
  ELSE IF IsDMY(ts) /\ MonthOf(ts[2]) # NoneVal
    THEN IsoDate(YearTok(ts).n, MonthOf(ts[2]), ts[1].n)
  ELSE NoneVal

\* int(parsed[:4])
YearOf(iso) == iso \div 10000

\* 2025 <= year <= 2028
InWindow(iso) == 2025 <= YearOf(iso) /\ YearOf(iso) <= 2028

\* A pattern: the keyword phrases its head matches, and the date shape of
\* its capture group.
Pat(kw, shape) == [kw |-> kw, shape |-> shape]

HasShape(ts, shape) ==
  CASE shape = "MDY" -> IsMDY(ts)
    [] shape = "MDY," -> IsMDY(ts) /\ Len(ts) = 4
    [] shape = "DMY" -> IsDMY(ts)
    [] shape = "DMY3" -> IsDMY(ts) /\ Len(ts) = 3
    [] shape = "M/D/Y" -> IsSlashDate(ts)
    [] shape = "Y-M-D" -> IsIsoText(ts)
    [] shape = "MD" -> Len(ts) >= 2 /\ IsWord(ts[1]) /\ IsD12(ts[2])
    [] shape = "DM" -> Len(ts) >= 2 /\ IsD12(ts[1]) /\ IsWord(ts[2])

\* match.group(1): a year-less group takes the day and the month only
Capture(ts, shape) == IF shape \in {"MD", "DM"} THEN SubSeq(ts, 1, 2) ELSE ts

Matching(pattern, text) ==
  {i \in DOMAIN text : /\ text[i].kw \in pattern.kw
                       /\ HasShape(text[i].date, pattern.shape)}

\* re.search(pattern, text, re.IGNORECASE): the capture of the leftmost
\* match, <<>> for no match
re_search(pattern, text) ==
  IF Matching(pattern, text) = {} THEN <<>>
  ELSE LET i == CHOOSE k \in Matching(pattern, text) :
                  \A j \in Matching(pattern, text) : k <= j
       IN Capture(text[i].date, pattern.shape)

\* The patterns of DEADLINE_PATTERNS whose keyword is one of "Deadline:",
\* "deadline is", "submitted by" and "by", in list order; left out are the
\* patterns that match none of these keywords, and those that match a line
\* only where an earlier pattern of this list matches it with the same
\* capture.
DEADLINE_PATTERNS ==
  << Pat({"Deadline:"}, "MDY"),
     Pat({"Deadline:"}, "DMY"),
     Pat({"Deadline:"}, "M/D/Y"),
     Pat({"Deadline:"}, "Y-M-D"),
     Pat({"submitted by"}, "MDY"),
     Pat({"submitted by"}, "DMY"),
     Pat({"submitted by", "by"}, "MDY"),
     Pat({"submitted by", "by"}, "DMY"),
     Pat({"Deadline:", "deadline is"}, "MDY,"),
     Pat({"Deadline:", "deadline is"}, "DMY") >>

NO_YEAR_PATTERNS ==
  << Pat({"deadline is"}, "DM"),
     Pat({"deadline is"}, "MD"),
     Pat({"submitted by", "by"}, "MD"),
     Pat({"submitted by", "by"}, "DM"),
     Pat({"Deadline:", "deadline is"}, "MD") >>

\* Mutant: the cascade ends at the first pattern that matches, whether or
\* not its capture is accepted.
RECURSIVE dated_cascade_first_match(_, _)
dated_cascade_first_match(text, i) ==
  IF i > Len(DEADLINE_PATTERNS) THEN NoneVal
  ELSE LET raw == re_search(DEADLINE_PATTERNS[i], text)
           parsed == parse_date_flexible(raw)
       IN IF raw = <<>> THEN dated_cascade_first_match(text, i + 1)
          ELSE IF parsed # NoneVal /\ InWindow(parsed) THEN parsed
          ELSE NoneVal

\* lines 256-263: the loop over DEADLINE_PATTERNS from the i-th pattern on;
\* a match whose capture does not parse, or parses to a year outside the
\* window, is passed over and the loop goes on
RECURSIVE dated_cascade(_, _)
dated_cascade(text, i) ==
  IF i > Len(DEADLINE_PATTERNS) THEN NoneVal
  ELSE LET raw == re_search(DEADLINE_PATTERNS[i], text)
           parsed == parse_date_flexible(raw)
       IN IF raw # <<>> /\ parsed # NoneVal /\ InWindow(parsed) THEN parsed
          ELSE dated_cascade(text, i + 1)

\* lines 287-292: for try_year in [...]: the first year with which the
\* capture parses, with ", YYYY" and then with " YYYY" appended
RECURSIVE try_years(_, _)
try_years(raw, years) ==
  IF years = <<>> THEN NoneVal
  ELSE LET with_comma == parse_date_flexible(raw \o <<P(","), N(Head(years))>>)
           parsed == IF with_comma # NoneVal THEN with_comma
                     ELSE parse_date_flexible(raw \o <<N(Head(years))>>)
       IN IF parsed # NoneVal THEN parsed
          ELSE try_years(raw, Tail(years))

\* lines 282-292: the loop over NO_YEAR_PATTERNS from the i-th pattern on
RECURSIVE no_year_cascade(_, _, _)
no_year_cascade(text, current_year, i) ==
  IF i > Len(NO_YEAR_PATTERNS) THEN NoneVal
  ELSE LET raw == re_search(NO_YEAR_PATTERNS[i], text)
           parsed == try_years(raw, <<current_year, current_year + 1,
                                      current_year - 1>>)
       IN IF raw # <<>> /\ parsed # NoneVal THEN parsed
          ELSE no_year_cascade(text, current_year, i + 1)

\* lines 255-294.  current_year is _date.today().year, which the function
\* reads from the wall clock: it has no as-of parameter.
extract_deadline_from_text(text, current_year) ==
  IF dated_cascade(text, 1) # NoneVal THEN dated_cascade(text, 1)
  ELSE no_year_cascade(text, current_year, 1)

\* The patterns of CONF_DATE_PATTERNS whose keyword is "Conference Date:",
\* for a single date.
CONF_DATE_PATTERNS ==
  << Pat({"Conference Date:"}, "DMY3"),
     Pat({"Conference Date:"}, "MDY") >>

\* lines 503-513: what one matching pattern comes to, (None, None) when the
\* date does not parse or its year is outside the window
conf_date_of(raw) ==
  LET listed == parse_conf_dates(raw)
      start_date == IF listed.start # EmptyDate THEN listed.start
                    ELSE parse_date_flexible(raw)
      display == IF listed.start # EmptyDate THEN listed.display ELSE raw
  IN IF Truthy(start_date) /\ InWindow(start_date)
       THEN [start |-> start_date, display |-> display]
       ELSE [start |-> NoneVal, display |-> <<>>]

\* lines 498-514
RECURSIVE conf_cascade(_, _)
conf_cascade(text, i) ==
  IF i > Len(CONF_DATE_PATTERNS) THEN [start |-> NoneVal, display |-> <<>>]
  ELSE LET raw == re_search(CONF_DATE_PATTERNS[i], text)
       IN IF raw # <<>> /\ conf_date_of(raw).start # NoneVal
            THEN conf_date_of(raw)
          ELSE conf_cascade(text, i + 1)

extract_conf_date_from_text(text) == conf_cascade(text, 1)

\* ---------------------------------------------------------------- entry filter
NON_CONFERENCE_KEYWORDS ==
  {"prize", "award", "ph.d.", "phd in ", "professorship", "assistant professor",
   "finance theory insights", "data grant", "sbur collection",
   "farfe awards", "pre-announcments:", "ecomod school",
   "calling scholars interested", "call for registration",
   "multinational finance journal", "fully funded",
   "research programme", "research program", "monetary research",
   "call for proposals", "call for applications", "call for nominations",
   "call for research projects", "dissertation proposal", "dissertation grant",
   "doctoral internship", "doctoral colloquium",
   "hackathon", "webinar", "student research competition",
   "postdoctoral", "postdoc ", "research associate",
   "memorial prize", "memorial award",
   "graduate programme", "graduate program",
   "advances in econometrics volume", "bayesian macroeconometrics",
   "estimating the impact of", "education policy hackathon",
   "open-bid applied research", "data science summer school",
   "corporate governance summer school", "lse corporate governance summer",
   "call for papers:", "call for papers!",
   "now accepting submissions", "research grants provided by"}

NON_CONFERENCE_EXACT == {"summer school", "call for job market paper"}

CONFERENCE_SAFELIST ==
  {"annual meeting", "annual conference", "midyear meeting",
   "finance conference", "accounting conference", "economics conference",
   "annual congress", "winter finance", "research conference",
   "workshop", "symposium", "forum", "summit"}

\* lines 86-99: TRUE when the entry is to be dropped.  The safelist is
\* looked at only after a hit in NON_CONFERENCE_KEYWORDS.
is_non_conference(name) ==
  IF \E kw \in NON_CONFERENCE_KEYWORDS : Contains(name, kw)
    THEN ~ \E safe \in CONFERENCE_SAFELIST : Contains(name, safe)
  ELSE \E kw \in NON_CONFERENCE_EXACT :
         Contains(name, kw) /\ ~Contains(name, "conference")

\* ---------------------------------------------------------------- merge
\* A ConferenceRecord is a record with the fields id, name, dates, startDate,
\* location, country, disc, sid, ssrnLink, deadline, url, tier; a field that
\* is missing in the JSON reads as its empty value (c.get(f, "")).
\* A ScrapedEntry has name, dates, location, category, sid, ssrnLink and the
\* fields the passes add: deadline, conf_start, conf_display (NoneVal, NoneVal
\* and <<>> while absent).

InSeq(x, seq) == \E i \in DOMAIN seq : seq[i] = x

\* {str(c.get("sid", "")): c for c in existing}: a later record with the same
\* sid replaces an earlier one; the dict holds references into the list, so
\* the model keeps the index of the record.
existing_by_sid(existing) ==
  [s \in {existing[i].sid : i \in DOMAIN existing} |->
     CHOOSE i \in DOMAIN existing :
       /\ existing[i].sid = s
       /\ \A j \in DOMAIN existing : existing[j].sid = s => j <= i]

MaxOf(S) == IF S = {} THEN 0 ELSE CHOOSE x \in S : \A y \in S : y <= x

\* Mutant: the next id is the number of records plus one.
first_next_id_count(existing) == Len(existing) + 1

\* max((c.get("id", 0) for c in existing), default=0) + 1
first_next_id(existing) == MaxOf({existing[i].id : i \in DOMAIN existing}) + 1

\* Mutant: only the records the batch names are kept.
merge_scraped_listed_only(existing, scraped) ==
  SelectSeq(existing, LAMBDA c : \E j \in DOMAIN scraped : scraped[j].sid = c.sid)

\* Mutant: the deadline is taken from the entry whenever it carries one.
merge_deadline_overwrite(ex, s) ==
  IF Truthy(s.deadline) THEN s.deadline ELSE ex.deadline


merge_deadline(ex, s) ==
  IF Truthy(s.deadline) /\ (ex.deadline = EmptyDate \/ ex.deadline = TBD)
    THEN s.deadline
    ELSE ex.deadline

merge_dates(ex, s) ==
  IF Truthy(s.conf_start)
    THEN IF ex.startDate = EmptyDate \/ EndsWith01(ex.startDate)
           THEN [startDate |-> s.conf_start,
                 dates |-> IF s.conf_display # <<>> THEN s.conf_display
                           ELSE ex.dates]
           ELSE [startDate |-> ex.startDate, dates |-> ex.dates]
  ELSE IF s.dates # <<>> /\ ex.dates = <<>>
    THEN LET p == parse_conf_dates(s.dates)
         IN [dates |-> IF p.display # <<>> THEN p.display ELSE ex.dates,
             startDate |-> IF p.start # EmptyDate /\ ex.startDate = EmptyDate
                             THEN p.start ELSE ex.startDate]
  ELSE [startDate |-> ex.startDate, dates |-> ex.dates]

merge_location(ex, s) ==
  IF s.location # "" /\ ex.location = ""
    THEN [location |-> s.location, country |-> detect_country(s.location)]
    ELSE [location |-> ex.location, country |-> ex.country]

RECURSIVE AppendMissing(_, _)
AppendMissing(disc, tags) ==
  IF tags = <<>> THEN disc
  ELSE AppendMissing(IF InSeq(Head(tags), disc) THEN disc
                     ELSE Append(disc, Head(tags)),
                     Tail(tags))

\* Mutant: every tag of the entry is appended, present or not.
merge_disc_append(ex, s) == ex.disc \o detect_disciplines(s.category, s.name)

\* Mutant: the tags of the entry replace those of the record.
merge_disc_replace(ex, s) == detect_disciplines(s.category, s.name)


merge_disc(ex, s) == AppendMissing(ex.disc, detect_disciplines(s.category, s.name))

\* Mutant: the update also refreshes the name and the link from the entry.
update_record_refresh(ex, s) ==
  [ex EXCEPT !.deadline = merge_deadline(ex, s),
             !.startDate = merge_dates(ex, s).startDate,
             !.dates = merge_dates(ex, s).dates,
             !.location = merge_location(ex, s).location,
             !.country = merge_location(ex, s).country,
             !.disc = merge_disc(ex, s),
             !.name = s.name,
             !.ssrnLink = s.ssrnLink]

\* lines 576-598: the update of the record found under the entry's sid
update_record(ex, s) ==
  [ex EXCEPT !.deadline = merge_deadline(ex, s),
             !.startDate = merge_dates(ex, s).startDate,
             !.dates = merge_dates(ex, s).dates,
             !.location = merge_location(ex, s).location,
             !.country = merge_location(ex, s).country,
             !.disc = merge_disc(ex, s)]

\* Mutant: a new record's deadline is left empty when the entry has none.
new_conf_no_default(s, next_id) ==
  LET p == parse_conf_dates(s.dates)
  IN [id |-> next_id,
      name |-> s.name,
      dates |-> IF Truthy(s.conf_start) THEN s.conf_display
                ELSE IF p.display # <<>> THEN p.display ELSE s.dates,
      startDate |-> IF Truthy(s.conf_start) THEN s.conf_start ELSE p.start,
      location |-> s.location,
      country |-> detect_country(s.location),
      disc |-> detect_disciplines(s.category, s.name),
      sid |-> s.sid,
      ssrnLink |-> s.ssrnLink,
      deadline |-> IF s.deadline = NoneVal THEN EmptyDate ELSE s.deadline,
      url |-> "",
      tier |-> ""]

\* lines 600-619: the record built for an unseen sid
new_conf(s, next_id) ==
  LET p == parse_conf_dates(s.dates)
      start_date == IF Truthy(s.conf_start) THEN s.conf_start ELSE p.start
      display_dates == IF Truthy(s.conf_start) THEN s.conf_display ELSE p.display
  IN [id |-> next_id,
      name |-> s.name,
      dates |-> IF display_dates # <<>> THEN display_dates ELSE s.dates,
      startDate |-> start_date,
      location |-> s.location,
      country |-> detect_country(s.location),
      disc |-> detect_disciplines(s.category, s.name),
      sid |-> s.sid,
      ssrnLink |-> s.ssrnLink,
      deadline |-> IF s.deadline = NoneVal THEN TBD ELSE s.deadline,
      url |-> "",
      tier |-> ""]

\* Mutant: an entry without a sid is handled like any other.
merge_step_keep_nosid(st, s) ==
  IF s.sid \in DOMAIN st.by_sid
    THEN [st EXCEPT !.existing[st.by_sid[s.sid]] =
                       update_record(st.existing[st.by_sid[s.sid]], s)]
  ELSE [existing |-> Append(st.existing, new_conf(s, st.next_id)),
        by_sid |-> [k \in DOMAIN st.by_sid \cup {s.sid} |->
                      IF k = s.sid THEN Len(st.existing) + 1 ELSE st.by_sid[k]],
        next_id |-> st.next_id + 1]

\* Mutant: a new record is not entered into existing_by_sid.
merge_step_unindexed(st, s) ==
  IF s.sid = "" THEN st
  ELSE IF s.sid \in DOMAIN st.by_sid
    THEN [st EXCEPT !.existing[st.by_sid[s.sid]] =
                       update_record(st.existing[st.by_sid[s.sid]], s)]
  ELSE [st EXCEPT !.existing = Append(st.existing, new_conf(s, st.next_id)),
                  !.next_id = st.next_id + 1]

\* One iteration of "for s in scraped" over the loop state
\* [existing, by_sid, next_id].
merge_step(st, s) ==
  IF s.sid = "" THEN st
  ELSE IF s.sid \in DOMAIN st.by_sid
    THEN [st EXCEPT !.existing[st.by_sid[s.sid]] =
                       update_record(st.existing[st.by_sid[s.sid]], s)]
  ELSE [existing |-> Append(st.existing, new_conf(s, st.next_id)),
        by_sid |-> [k \in DOMAIN st.by_sid \cup {s.sid} |->
                      IF k = s.sid THEN Len(st.existing) + 1 ELSE st.by_sid[k]],
        next_id |-> st.next_id + 1]

RECURSIVE merge_loop(_, _)
merge_loop(st, scraped) ==
  IF scraped = <<>> THEN st
  ELSE merge_loop(merge_step(st, Head(scraped)), Tail(scraped))

merge_scraped_into_existing(existing, scraped) ==
  merge_loop([existing |-> existing,
              by_sid |-> existing_by_sid(existing),
              next_id |-> first_next_id(existing)],
             scraped).existing

\* ---------------------------------------------------------------- inputs
D1 == IsoDate(2026, 5, 1)
D2 == IsoDate(2026, 6, 1)
C1st == IsoDate(2026, 6, 1)
C15th == IsoDate(2026, 6, 15)

Link101 == "https://www.ssrn.com/announcement/?id=101"
Link101b == "https://www.ssrn.com/announcement/?id=101&ref=fen"
Link102 == "https://www.ssrn.com/announcement/?id=102"
Link103 == "https://www.ssrn.com/announcement/?id=103"
LinkNoId == "https://www.ssrn.com/announcement/?id="
LinkOld == "https://www.ssrn.com/old-announcement"

\* link.href.match(/id=(\d+)/): the sid a listing link carries, '' if none
SidOf(href) ==
  CASE href \in {Link101, Link101b} -> "101"
    [] href = Link102 -> "102"
    [] href = Link103 -> "103"
    [] OTHER -> ""

Listing11Jul == <<N(11), W("July"), N(2026)>>
ListingAug == <<N(1), W("Aug"), N(2026), P("-"), N(2), W("Aug"), N(2026)>>
ListingTBA == <<W("TBA")>>

Entry(name, link, category, dates, location, deadline, cstart, cdisplay) ==
  [name |-> name, sid |-> SidOf(link), ssrnLink |-> link, category |-> category,
   dates |-> dates, location |-> location, deadline |-> deadline,
   conf_start |-> cstart, conf_display |-> cdisplay]

\* The scraped entries a caller hands to the merge.
Entries ==
  { Entry("Accounting Symposium", Link101b, <<"Accounting">>,
          Listing11Jul, "Paris, France", D2, NoneVal, <<>>),
    Entry("Winter Finance Workshop", Link101, <<"Finance">>,
          <<>>, "", D1, C1st, <<W("Jun"), N(1)>>),
    Entry("Macroeconomics Day", Link102, <<"Economics">>,
          ListingAug, "Boston, MA", NoneVal, NoneVal, <<>>),
    Entry("Macroeconomics Day", Link102, <<"Economics">>,
          <<>>, "", NoneVal, NoneVal, <<>>),
    Entry("Macroeconomics Day", Link102, <<"Finance">>,
          ListingTBA, "", D1, C15th, <<W("Jun"), N(15)>>),
    Entry("Accounting Symposium", LinkNoId, <<"Accounting">>,
          Listing11Jul, "Paris, France", D1, NoneVal, <<>>) }

RECURSIVE SeqsUpTo(_, _)
SeqsUpTo(S, n) ==
  IF n = 0 THEN {<<>>}
  ELSE LET shorter == SeqsUpTo(S, n - 1)
       IN shorter \cup {Append(q, e) : q \in shorter, e \in S}

Batches == SeqsUpTo(Entries, MaxBatch)

Rec(id, sid, name, link, deadline, startDate, dates, location, country, disc, tier) ==
  [id |-> id, name |-> name, dates |-> dates, startDate |-> startDate,
   location |-> location, country |-> country, disc |-> disc, sid |-> sid,
   ssrnLink |-> link, deadline |-> deadline, url |-> "", tier |-> tier]

\* Records of a store as loaded from conferences.json: curated by hand or
\* left by earlier runs.
RecA == Rec(1, "101", "Winter Finance Workshop", Link101, TBD,
            EmptyDate, <<>>, "", "Unknown", <<"fin">>, "2")
RecB == Rec(1, "101", "Winter Finance Workshop", LinkOld, TBD,
            IsoDate(2026, 7, 1), <<W("July"), N(2026)>>, "", "UK", <<"fin">>, "2")
RecC == Rec(1, "101", "Winter Finance Workshop", Link101, D2,
            EmptyDate, <<W("TBA")>>, "London", "UK", <<"econ">>, "")
RecZ == Rec(7, "", "Accounting Symposium", LinkOld, TBD,
            EmptyDate, <<>>, "", "Unknown", <<"acct">>, "3")

InitStores == { <<>>, <<RecA>>, <<RecB>>, <<RecC>>, <<RecZ, RecA>>, <<RecZ, RecB>> }

\* What page.evaluate returns for one listing item.
RawEntry(name, href, dates, location) ==
  [name |-> name, href |-> href, sid |-> SidOf(href), dates |-> dates,
   location |-> location]

RawWFW == RawEntry("Winter Finance Workshop", Link101, <<>>, "")
RawMacro == RawEntry("Macroeconomics Day", Link102, ListingAug, "Boston, MA")
RawPhD == RawEntry("PhD Workshop", Link103, <<>>, "")
RawNoSid == RawEntry("Accounting Symposium", LinkNoId, Listing11Jul, "Paris, France")

NETWORKS == <<"Finance", "Accounting", "Economics">>

\* What the three listing pages show during one pass, in the order of
\* NETWORKS; <<>> also stands for a page that failed to load
\* (scrape_listing_page returns []).
Listings ==
  { << <<>>, <<>>, <<>> >>,
    << <<RawWFW>>, <<RawWFW>>, <<>> >>,
    << <<>>, <<>>, <<RawPhD, RawMacro, RawNoSid>> >>,
    << <<RawWFW>>, <<RawMacro>>, <<RawMacro, RawNoSid>> >> }

\* What scrape_detail_page can return: a deadline or None, and a conference
\* date (start, display) or (None, None).  The first also is the result of
\* a fetch failure.
DetailResult(deadline, cstart, cdisplay) ==
  [deadline |-> deadline, conf_start |-> cstart, conf_display |-> cdisplay]

DetailResults ==
  { DetailResult(NoneVal, NoneVal, <<>>),
    DetailResult(D1, NoneVal, <<>>),
    DetailResult(D2, C15th, <<W("Jun"), N(15)>>) }

\* What loading a detail page can come to: the load raises (timeout,
\* navigation or network error), or the page loads and the extraction
\* yields one of DetailResults.
Fetch(error, page) == [error |-> error, page |-> page]

Fetches ==
  {Fetch(TRUE, DetailResult(NoneVal, NoneVal, <<>>))}
    \cup {Fetch(FALSE, r) : r \in DetailResults}

\* Mutant: a result is extracted after a failed load as well, from whatever
\* the page object still holds.
scrape_detail_page_stale(f) ==
  IF f.error THEN DetailResult(D1, NoneVal, <<>>) ELSE f.page

\* lines 519-546: the except branch returns the empty result
scrape_detail_page(f) ==
  IF f.error THEN DetailResult(NoneVal, NoneVal, <<>>) ELSE f.page

\* json.load on the store file: the file's list, [] when the file is
\* missing; a corrupt file raises (see LoadFails).
load_existing_json(f, content) == IF f = "missing" THEN <<>> ELSE content

Loadable(f) == f \in {"ok", "missing"}

\* lines 549-552
scrape_deadline_from_page(f) == scrape_detail_page(f).deadline

NoListing == << <<>>, <<>>, <<>> >>

\* ---------------------------------------------------------------- dated inputs
\* Dates as a listing or a detail page can show them; the patterns take any
\* one or two digits for the day.
Listing31Feb == <<N(31), W("Feb"), N(2026)>>
Listing30Feb == <<N(30), W("Feb"), N(2026)>>

\* An entry as a pass hands it to the merge: dates is what the listing
\* showed, and conf_start and conf_display are what
\* extract_conf_date_from_text made of the detail page text.
DatedEntry(link, dates, full_text) ==
  Entry("Macroeconomics Day", link, <<"Economics">>, dates, "", NoneVal,
        extract_conf_date_from_text(full_text).start,
        extract_conf_date_from_text(full_text).display)

DatedEntries ==
  {DatedEntry(link, dates, full_text) :
     link \in {Link101, Link102},
     dates \in {<<>>, Listing11Jul, Listing31Feb},
     full_text \in {<<>>, <<Line("Conference Date:", Listing30Feb)>>}}

DatedBatches == SeqsUpTo(DatedEntries, MaxBatch)

\* ---------------------------------------------------------------- text inputs
MaxLines == 2
MaxRuns == 2

LnDeadline2026 == Line("Deadline:", <<W("March"), N(3), P(","), N(2026)>>)
LnDeadline2031 == Line("Deadline:", <<W("March"), N(3), P(","), N(2031)>>)
LnSubmitted == Line("submitted by", <<N(4), W("Jul"), N(2026)>>)
LnIsMarch3 == Line("deadline is", <<W("March"), N(3)>>)
LnByFeb29 == Line("by", <<N(29), W("Feb")>>)
LnConf == Line("Conference Date:", Listing11Jul)

Lines == {LnDeadline2026, LnDeadline2031, LnSubmitted, LnIsMarch3, LnByFeb29,
          LnConf}

\* The texts a detail page can hold.
Texts == SeqsUpTo(Lines, MaxLines)

\* The years the wall clock can show (date.today().year).
WallYears == {2026, 2027, 2029}

\* How the loading of a detail page goes: what page.goto comes to and, if
\* the page is reloaded, what page.reload comes to: the load raises
\* ("error"), the content is the bot-challenge interstitial ("challenge"),
\* or it is the announcement ("page").
Load(goto, reload) == [goto |-> goto, reload |-> reload]

Loads ==
  {Load("error", "page"), Load("page", "page")}
    \cup {Load("challenge", r) : r \in {"error", "challenge", "page"}}

\* The names of listing items.
Names ==
  {"Winter Finance Workshop", "Accounting Symposium", "Macroeconomics Day",
   "PhD Workshop", "2026 Winter Finance Workshop for PhD Students",
   "Postdoctoral Research Associate Position", "Governance Award Symposium",
   "Summer School and Workshop on Asset Pricing",
   "Summer School Conference on Banking"}

\* lines 541-546: the result of a page whose text is full_text
detail_of(full_text, current_year) ==
  DetailResult(extract_deadline_from_text(full_text, current_year),
               extract_conf_date_from_text(full_text).start,
               extract_conf_date_from_text(full_text).display)

\* ---------------------------------------------------------------- listing
skip_keywords ==
  {"phd", "doctoral position", "faculty position", "professor of",
   "call for chapters", "special issue", "journal of", "edited book",
   "tenure track", "research associate", "instructor", "lecturer",
   "fellowship", "scholarship"}

\* lines 457-473: the filter and the tagging of one listing page's items
RECURSIVE scrape_listing_page(_, _)
scrape_listing_page(entries, network_name) ==
  IF entries = <<>> THEN <<>>
  ELSE LET e == Head(entries)
           rest == scrape_listing_page(Tail(entries), network_name)
       IN IF \E kw \in skip_keywords : Contains(e.name, kw) THEN rest
          ELSE <<[name |-> e.name, sid |-> e.sid, ssrnLink |-> e.href,
                  category |-> <<network_name>>, dates |-> e.dates,
                  location |-> e.location, deadline |-> NoneVal,
                  conf_start |-> NoneVal, conf_display |-> <<>>]>> \o rest

\* Phase 1: every network's page in turn, concatenated
RECURSIVE scrape_all(_, _)
scrape_all(listing, n) ==
  IF n = 0 THEN <<>>
  ELSE scrape_all(listing, n - 1) \o scrape_listing_page(listing[n], NETWORKS[n])

IndexOfSid(seq, sid) == CHOOSE i \in DOMAIN seq : seq[i].sid = sid
HasSid(seq, sid) == \E i \in DOMAIN seq : seq[i].sid = sid

\* Mutant: a repeated sid takes the category of its latest entry.
RECURSIVE dedup_latest_category(_, _)
dedup_latest_category(seen0, all_scraped) ==
  IF all_scraped = <<>> THEN seen0
  ELSE LET c == Head(all_scraped)
           next ==
             IF ~HasSid(seen0, c.sid) THEN Append(seen0, c)
             ELSE [seen0 EXCEPT ![IndexOfSid(seen0, c.sid)].category = c.category]
       IN dedup_latest_category(next, Tail(all_scraped))

\* "Deduplicate by SID": the dict seen, kept in insertion order, as a
\* sequence; a repeated sid adds its category to the first entry's.
RECURSIVE dedup(_, _)
dedup(seen0, all_scraped) ==
  IF all_scraped = <<>> THEN seen0
  ELSE LET c == Head(all_scraped)
           next ==
             IF ~HasSid(seen0, c.sid) THEN Append(seen0, c)
             ELSE LET i == IndexOfSid(seen0, c.sid)
                  IN IF InCat(seen0[i].category, c.category[1]) THEN seen0
                     ELSE [seen0 EXCEPT ![i].category = @ \o c.category]
       IN dedup(next, Tail(all_scraped))

\* run_list_only keeps the first entry of a sid and nothing of the others
RECURSIVE dedup_first(_, _)
dedup_first(seen0, all_scraped) ==
  IF all_scraped = <<>> THEN seen0
  ELSE dedup_first(IF HasSid(seen0, Head(all_scraped).sid) THEN seen0
                   ELSE Append(seen0, Head(all_scraped)),
                   Tail(all_scraped))

existing_sids(existing) == {existing[i].sid : i \in DOMAIN existing}

IsTBD(c) == c.deadline = EmptyDate \/ c.deadline = TBD
IsVague(start) == start = EmptyDate \/ EndsWith01(start)

tbd_sids(existing) == {existing[i].sid : i \in {j \in DOMAIN existing : IsTBD(existing[j])}}

vague_date_sids(existing) ==
  {existing[i].sid : i \in {j \in DOMAIN existing :
                              existing[j].sid # "" /\ IsVague(existing[j].startDate)}}

\* lines 681-687: the page to fetch for a sid
make_sid_to_url(existing, seen0) ==
  LET tbd == tbd_sids(existing)
      linked == {i \in DOMAIN existing :
                   existing[i].sid \in tbd /\ existing[i].ssrnLink # ""}
      keys == {seen0[i].sid : i \in DOMAIN seen0}
                \cup {existing[i].sid : i \in linked}
  IN [k \in keys |->
        IF \E i \in linked : existing[i].sid = k
          THEN existing[MaxOf({i \in linked : existing[i].sid = k})].ssrnLink
          ELSE seen0[IndexOfSid(seen0, k)].ssrnLink]

MinOf(S) == CHOOSE x \in S : \A y \in S : x <= y

\* lines 716-724: a deadline found on the page of sid
apply_deadline(existing, sid, deadline) ==
  LET hits == {i \in DOMAIN existing : existing[i].sid = sid /\ IsTBD(existing[i])}
  IN IF hits = {} THEN existing
     ELSE [existing EXCEPT ![MinOf(hits)].deadline = deadline]

\* lines 726-743: a conference date found on the page of sid
apply_conf_date(existing, sid, conf_start, conf_display) ==
  LET hits == {i \in DOMAIN existing : existing[i].sid = sid}
  IN IF hits = {} \/ ~IsVague(existing[MinOf(hits)].startDate) THEN existing
     ELSE [existing EXCEPT ![MinOf(hits)].startDate = conf_start,
                           ![MinOf(hits)].dates =
                              IF conf_display # <<>> THEN conf_display ELSE @]

seen_with_result(seen0, sid, r) ==
  IF ~HasSid(seen0, sid) THEN seen0
  ELSE LET i == IndexOfSid(seen0, sid)
       IN [seen0 EXCEPT
             ![i].deadline = IF Truthy(r.deadline) THEN r.deadline ELSE @,
             ![i].conf_start = IF Truthy(r.conf_start) THEN r.conf_start ELSE @,
             ![i].conf_display = IF Truthy(r.conf_start) THEN r.conf_display ELSE @]

existing_with_result(existing, sid, r) ==
  LET e1 == IF Truthy(r.deadline) THEN apply_deadline(existing, sid, r.deadline)
            ELSE existing
  IN IF Truthy(r.conf_start)
       THEN apply_conf_date(e1, sid, r.conf_start, r.conf_display)
       ELSE e1

\* ---------------------------------------------------------------- state
VARIABLES
  disk,        \* the persistent store (conferences.json)
  existing,    \* the store in memory
  pc,          \* "idle", or the pass in progress: "full", "deadlines", "new"
  seen,        \* the deduplicated listing entries of the pass
  toVisit,     \* full pass: the sids still to visit
  sid_to_url,  \* full pass: the page of each sid
  queue,       \* deadlines-only and new-only: what is still to visit, in order
  parsedStart, \* the records whose startDate this engine parsed from text
  file,        \* conferences.json: "ok", "missing", "corrupt", or "partial"
               \* (cut short in the middle of a write)
  listing,     \* history: what the listing pages showed to the pass in progress
  fetch,       \* history: the last detail page load, "ok" or "failed";
               \* "none" when the last step loaded no page
  pre,         \* history: the store before the recorded operation
  lastBatch,   \* history: the batch the recorded operation merged
  op,          \* history: the recorded operation, "none" while none is
  nops,        \* number of operations started
  item,        \* the name of the listing item in hand
  verdict,     \* what is_non_conference said of it
  text,        \* the text of the detail page in hand
  wall,        \* the year the wall clock shows
  load,        \* how the loading of that page goes
  dp,          \* where the handling of the item or the page is
  reloads,     \* the reloads of the page in this visit
  out,         \* what the last visit of the page returned
  prev,        \* what the visit before it returned
  runs         \* the visits of the page begun

storeVars == <<disk, existing, pc, seen, toVisit, sid_to_url, queue,
               parsedStart, file, listing, fetch, pre, lastBatch, op, nops>>
textVars == <<item, verdict, text, wall, load, dp, reloads, out, prev, runs>>

vars == <<storeVars, textVars>>

passVars == <<seen, toVisit, sid_to_url, queue>>
ghostVars == <<listing, fetch>>
histVars == <<pre, lastBatch, op>>

NoUrls == [k \in {} |-> ""]

\* No item and no page is in hand.
TextRest ==
  /\ item = ""
  /\ verdict = FALSE
  /\ text = <<>>
  /\ load = Load("page", "page")
  /\ dp = "idle"
  /\ reloads = 0
  /\ out = DetailResult(NoneVal, NoneVal, <<>>)
  /\ prev = DetailResult(NoneVal, NoneVal, <<>>)
  /\ runs = 0

InitRest ==
  /\ existing = disk
  /\ pc = "idle"
  /\ seen = <<>>
  /\ toVisit = {}
  /\ sid_to_url = NoUrls
  /\ queue = <<>>
  /\ parsedStart = {}
  /\ pre = <<>>
  /\ lastBatch = <<>>
  /\ op = "none"
  /\ nops = 0
  /\ listing = NoListing
  /\ fetch = "none"

\* The store file is there and holds a list of records.
Init ==
  /\ disk \in InitStores
  /\ file = "ok"
  /\ InitRest
  /\ wall = YearOf(D1)
  /\ TextRest

\* The store file may also be missing, or hold no JSON; disk then is <<>>.
InitFile ==
  /\ \/ disk \in InitStores /\ file = "ok"
     \/ disk = <<>> /\ file \in {"missing", "corrupt"}
  /\ InitRest
  /\ wall = YearOf(D1)
  /\ TextRest

\* The history variables follow the run up to one operation, chosen freely,
\* and the run ends there.
CanStart == pc = "idle" /\ op = "none" /\ nops < MaxOps

Record(name, before, batch) ==
  \/ /\ op' = name /\ pre' = before /\ lastBatch' = batch
  \/ UNCHANGED histVars

\* The records whose startDate the step wrote.
Written(old, new) ==
  {i \in DOMAIN new : IF i \in DOMAIN old THEN new[i].startDate # old[i].startDate
                      ELSE new[i].startDate # EmptyDate}

\* A caller merges one of the batches into the store.
Merge(batches) ==
  /\ CanStart
  /\ \E b \in batches :
       /\ existing' = merge_scraped_into_existing(existing, b)
       /\ Record("merge", existing, b)
  /\ disk' = existing'
  /\ parsedStart' = parsedStart \cup Written(existing, existing')
  /\ nops' = nops + 1
  /\ UNCHANGED <<pc, passVars, file, ghostVars>>
  /\ UNCHANGED textVars

\* A caller merges a batch of scraped entries into the store.
MergeCall == Merge(Batches)

\* A caller merges a batch of entries whose dates were read off the pages.
MergeDated == Merge(DatedBatches)

\* run_full_scrape up to the first detail page
StartFull ==
  /\ CanStart
  /\ Loadable(file)
  /\ \E shown \in Listings :
       LET loaded == load_existing_json(file, disk)
           seen0 == dedup(<<>>, scrape_all(shown, Len(NETWORKS)))
           new_sids == {seen0[i].sid : i \in DOMAIN seen0} \ existing_sids(loaded)
       IN /\ existing' = loaded
          /\ seen' = seen0
          /\ toVisit' = new_sids \cup tbd_sids(loaded) \cup vague_date_sids(loaded)
          /\ sid_to_url' = make_sid_to_url(loaded, seen0)
          /\ listing' = shown
  /\ pc' = "full"
  /\ nops' = nops + 1
  /\ UNCHANGED <<disk, file, queue, parsedStart, fetch, histVars>>
  /\ UNCHANGED textVars

\* One iteration of "for sid in sids_to_visit" (a set: any order).
VisitFull ==
  /\ pc = "full"
  /\ \E sid \in toVisit :
       /\ toVisit' = toVisit \ {sid}
       /\ IF sid \notin DOMAIN sid_to_url \/ sid_to_url[sid] = ""
            THEN /\ UNCHANGED <<seen, existing>>
                 /\ fetch' = "none"
            ELSE \E f \in Fetches :
                   /\ seen' = seen_with_result(seen, sid, scrape_detail_page(f))
                   /\ existing' = existing_with_result(existing, sid,
                                                       scrape_detail_page(f))
                   /\ fetch' = IF f.error THEN "failed" ELSE "ok"
  /\ parsedStart' = parsedStart \cup Written(existing, existing')
  /\ UNCHANGED <<disk, file, pc, sid_to_url, queue, listing, histVars, nops>>
  /\ UNCHANGED textVars

\* Phase 3: merge and save
FinishFull ==
  /\ pc = "full"
  /\ toVisit = {}
  /\ existing' = merge_scraped_into_existing(existing, seen)
  /\ disk' = existing'
  /\ file' = "ok"
  /\ Record("full", load_existing_json(file, disk), seen)
  /\ parsedStart' = parsedStart \cup Written(existing, existing')
  /\ pc' = "idle"
  /\ seen' = <<>>
  /\ sid_to_url' = NoUrls
  /\ listing' = NoListing
  /\ fetch' = "none"
  /\ UNCHANGED <<toVisit, queue, nops>>
  /\ UNCHANGED textVars

\* Mutant: every record of the store is checked.
tbd_confs_all(store) == [i \in DOMAIN store |-> i]

\* tbd_confs = [c for c in existing if c.get("deadline", "TBD") == "TBD"],
\* as the positions of those records in the store
tbd_confs(store) ==
  SelectSeq([i \in DOMAIN store |-> i], LAMBDA i : IsTBD(store[i]))

\* run_deadlines_only up to the first detail page, or to its early return
StartDeadlines ==
  /\ CanStart
  /\ Loadable(file)
  /\ existing' = load_existing_json(file, disk)
  /\ LET confs == tbd_confs(load_existing_json(file, disk))
     IN IF confs = <<>>
          THEN /\ UNCHANGED <<pc, queue>>
               /\ Record("deadlines", load_existing_json(file, disk), <<>>)
          ELSE /\ pc' = "deadlines"
               /\ queue' = confs
               /\ UNCHANGED histVars
  /\ nops' = nops + 1
  /\ UNCHANGED <<disk, file, seen, toVisit, sid_to_url, parsedStart, ghostVars>>
  /\ UNCHANGED textVars

\* One iteration of "for i, conf in enumerate(tbd_confs)"
VisitDeadlines ==
  /\ pc = "deadlines"
  /\ queue # <<>>
  /\ queue' = Tail(queue)
  /\ IF existing[Head(queue)].ssrnLink = ""
       THEN /\ UNCHANGED existing
            /\ fetch' = "none"
       ELSE \E f \in Fetches :
              /\ existing' =
                   IF Truthy(scrape_deadline_from_page(f))
                     THEN [existing EXCEPT ![Head(queue)].deadline =
                                              scrape_deadline_from_page(f)]
                     ELSE existing
              /\ fetch' = IF f.error THEN "failed" ELSE "ok"
  /\ UNCHANGED <<disk, file, pc, seen, toVisit, sid_to_url, parsedStart,
                 listing, histVars, nops>>
  /\ UNCHANGED textVars

FinishDeadlines ==
  /\ pc = "deadlines"
  /\ queue = <<>>
  /\ disk' = existing
  /\ file' = "ok"
  /\ Record("deadlines", disk, <<>>)
  /\ pc' = "idle"
  /\ fetch' = "none"
  /\ UNCHANGED <<existing, passVars, parsedStart, listing, nops>>
  /\ UNCHANGED textVars

\* Mutant: every listed entry counts as new.
new_entries_all(existing0, seen0) == seen0

new_entries(existing0, seen0) ==
  SelectSeq(seen0, LAMBDA c : c.sid \notin existing_sids(existing0))

\* run_new_only up to the first detail page, or to its early return
StartNew ==
  /\ CanStart
  /\ Loadable(file)
  /\ existing' = load_existing_json(file, disk)
  /\ \E shown \in Listings :
       LET seen0 == dedup(<<>>, scrape_all(shown, Len(NETWORKS)))
           news == new_entries(load_existing_json(file, disk), seen0)
       IN IF news = <<>>
            THEN /\ UNCHANGED <<pc, seen, queue, listing>>
                 /\ Record("new", load_existing_json(file, disk), <<>>)
            ELSE /\ pc' = "new"
                 /\ seen' = seen0
                 /\ queue' = [i \in DOMAIN news |-> news[i].sid]
                 /\ listing' = shown
                 /\ UNCHANGED histVars
  /\ nops' = nops + 1
  /\ UNCHANGED <<disk, file, toVisit, sid_to_url, parsedStart, fetch>>
  /\ UNCHANGED textVars

\* One iteration of "for i, (sid, conf) in enumerate(new_entries.items())"
VisitNew ==
  /\ pc = "new"
  /\ queue # <<>>
  /\ queue' = Tail(queue)
  /\ \E f \in Fetches :
       /\ seen' = IF Truthy(scrape_deadline_from_page(f))
                    THEN [seen EXCEPT ![IndexOfSid(seen, Head(queue))].deadline =
                                         scrape_deadline_from_page(f)]
                    ELSE seen
       /\ fetch' = IF f.error THEN "failed" ELSE "ok"
  /\ UNCHANGED <<disk, file, existing, pc, toVisit, sid_to_url, parsedStart,
                 listing, histVars, nops>>
  /\ UNCHANGED textVars

\* Mutant: the pass merges every listed entry, not the new ones only.
FinishNew_merging_seen ==
  /\ pc = "new"
  /\ queue = <<>>
  /\ existing' = merge_scraped_into_existing(existing, seen)
  /\ disk' = existing'
  /\ file' = "ok"
  /\ Record("new", load_existing_json(file, disk), seen)
  /\ parsedStart' = parsedStart \cup Written(existing, existing')
  /\ pc' = "idle"
  /\ seen' = <<>>
  /\ listing' = NoListing
  /\ fetch' = "none"
  /\ UNCHANGED <<toVisit, sid_to_url, queue, nops>>
  /\ UNCHANGED textVars

FinishNew ==
  /\ pc = "new"
  /\ queue = <<>>
  /\ existing' = merge_scraped_into_existing(existing, new_entries(existing, seen))
  /\ disk' = existing'
  /\ file' = "ok"
  /\ Record("new", load_existing_json(file, disk), new_entries(existing, seen))
  /\ parsedStart' = parsedStart \cup Written(existing, existing')
  /\ pc' = "idle"
  /\ seen' = <<>>
  /\ listing' = NoListing
  /\ fetch' = "none"
  /\ UNCHANGED <<toVisit, sid_to_url, queue, nops>>
  /\ UNCHANGED textVars

\* Mutant: the dry run saves what it found.
ListOnly_saving ==
  /\ CanStart
  /\ Loadable(file)
  /\ \E shown \in Listings :
       LET seen0 == dedup_first(<<>>, scrape_all(shown, Len(NETWORKS)))
       IN /\ Record("list", load_existing_json(file, disk), seen0)
          /\ existing' = merge_scraped_into_existing(
                           load_existing_json(file, disk), seen0)
  /\ disk' = existing'
  /\ file' = "ok"
  /\ nops' = nops + 1
  /\ UNCHANGED <<pc, passVars, parsedStart, ghostVars>>
  /\ UNCHANGED textVars

\* run_list_only: listings are read and the new sids logged
ListOnly ==
  /\ CanStart
  /\ Loadable(file)
  /\ existing' = load_existing_json(file, disk)
  /\ \E shown \in Listings :
       LET seen0 == dedup_first(<<>>, scrape_all(shown, Len(NETWORKS)))
       IN Record("list", load_existing_json(file, disk), seen0)
  /\ nops' = nops + 1
  /\ UNCHANGED <<disk, file, pc, passVars, parsedStart, ghostVars>>
  /\ UNCHANGED textVars

\* json.load raises on a file that holds no JSON; the exception leaves
\* main and the run ends.
LoadFails ==
  /\ CanStart
  /\ ~Loadable(file)
  /\ nops' = nops + 1
  /\ UNCHANGED <<disk, file, existing, pc, passVars, parsedStart, ghostVars,
                 histVars>>
  /\ UNCHANGED textVars

InPass == pc \in {"full", "deadlines", "new"}

AtWrite ==
  \/ pc = "full" /\ toVisit = {}
  \/ pc \in {"deadlines", "new"} /\ queue = <<>>

\* The process dies during a pass, before open(JSON_PATH, "w").
Crash ==
  /\ InPass
  /\ pc' = "idle"
  /\ seen' = <<>>
  /\ toVisit' = {}
  /\ sid_to_url' = NoUrls
  /\ queue' = <<>>
  /\ listing' = NoListing
  /\ fetch' = "none"
  /\ UNCHANGED <<disk, file, existing, parsedStart, histVars, nops>>
  /\ UNCHANGED textVars

\* The process dies between open(JSON_PATH, "w"), which empties the file,
\* and the end of json.dump: the file holds a proper prefix of the dump.
CrashInWrite ==
  /\ InPass
  /\ AtWrite
  /\ file' = "partial"
  /\ disk' = <<>>
  /\ pc' = "idle"
  /\ seen' = <<>>
  /\ toVisit' = {}
  /\ sid_to_url' = NoUrls
  /\ queue' = <<>>
  /\ listing' = NoListing
  /\ fetch' = "none"
  /\ UNCHANGED <<existing, parsedStart, histVars, nops>>
  /\ UNCHANGED textVars

\* ---------------------------------------------------------------- text steps
\* is_non_conference applied to the name of a listing item.
Filter ==
  /\ dp = "idle"
  /\ \E n \in Names :
       /\ item' = n
       /\ verdict' = is_non_conference(n)
  /\ dp' = "filtered"
  /\ UNCHANGED <<storeVars, text, wall, load, reloads, out, prev, runs>>

\* A detail page is about to be visited: its text, and how its loading
\* will go.
Open ==
  /\ dp = "idle"
  /\ \E t \in Texts, l \in Loads :
       /\ text' = t
       /\ load' = l
  /\ dp' = "start"
  /\ runs' = 1
  /\ UNCHANGED <<storeVars, item, verdict, wall, reloads, out, prev>>

\* lines 519-525: page.goto, the waits, and the first look at the content
Goto ==
  /\ dp = "start"
  /\ reloads' = 0
  /\ \/ /\ load.goto = "error"
        /\ out' = scrape_detail_page(
                    Fetch(TRUE, DetailResult(NoneVal, NoneVal, <<>>)))
        /\ dp' = "done"
     \/ /\ load.goto = "challenge"
        /\ dp' = "challenged"
        /\ out' = out
     \/ /\ load.goto = "page"
        /\ dp' = "loaded"
        /\ out' = out
  /\ UNCHANGED <<storeVars, item, verdict, text, wall, load, prev, runs>>

\* Mutant: the content is not looked at again after the reload.
Reload_unchecked ==
  /\ dp = "challenged"
  /\ reloads' = reloads + 1
  /\ dp' = "loaded"
  /\ UNCHANGED <<storeVars, item, verdict, text, wall, load, out, prev, runs>>

\* lines 526-534: the wait, the one reload and the second look at the
\* content; a challenge that is still there ends the visit with the empty
\* result, as a load that raises does
Reload ==
  /\ dp = "challenged"
  /\ reloads' = reloads + 1
  /\ \/ /\ load.reload \in {"error", "challenge"}
        /\ out' = scrape_detail_page(
                    Fetch(TRUE, DetailResult(NoneVal, NoneVal, <<>>)))
        /\ dp' = "done"
     \/ /\ load.reload = "page"
        /\ dp' = "loaded"
        /\ out' = out
  /\ UNCHANGED <<storeVars, item, verdict, text, wall, load, prev, runs>>

\* lines 541-546: the two extractions from the text of the page
Extract ==
  /\ dp = "loaded"
  /\ out' = scrape_detail_page(Fetch(FALSE, detail_of(text, wall)))
  /\ dp' = "done"
  /\ UNCHANGED <<storeVars, item, verdict, text, wall, load, reloads, prev, runs>>

\* The same page is visited once more, at the same or a later time; its text
\* and the way it loads are as before.
NextRun ==
  /\ dp = "done"
  /\ runs < MaxRuns
  /\ prev' = out
  /\ runs' = runs + 1
  /\ wall' \in {y \in WallYears : y >= wall}
  /\ dp' = "start"
  /\ UNCHANGED <<storeVars, item, verdict, text, load, reloads, out>>

Next ==
  \/ MergeCall
  \/ StartFull \/ VisitFull \/ FinishFull
  \/ StartDeadlines \/ VisitDeadlines \/ FinishDeadlines
  \/ StartNew \/ VisitNew \/ FinishNew
  \/ ListOnly

Spec == Init /\ [][Next]_vars

NextMerge == MergeCall

SpecMerge == Init /\ [][NextMerge]_vars

\* Merges of entries with the dates that pages can show.
NextDates == MergeDated

SpecDates == Init /\ [][NextDates]_vars

\* The four passes alone; a visit loop that has started runs on to its end.
NextPass ==
  \/ StartFull \/ VisitFull \/ FinishFull
  \/ StartDeadlines \/ VisitDeadlines \/ FinishDeadlines
  \/ StartNew \/ VisitNew \/ FinishNew
  \/ ListOnly

\* An iteration of the visit loop of a pass.
VisitStep == VisitFull \/ VisitDeadlines \/ VisitNew

SpecPass == Init /\ [][NextPass]_vars /\ WF_vars(VisitStep)

\* The four passes on a store file that may be missing or corrupt, with a
\* process that may die at any point.
NextFile ==
  \/ StartFull \/ VisitFull \/ FinishFull
  \/ StartDeadlines \/ VisitDeadlines \/ FinishDeadlines
  \/ StartNew \/ VisitNew \/ FinishNew
  \/ ListOnly
  \/ LoadFails \/ Crash \/ CrashInWrite

SpecFile == InitFile /\ [][NextFile]_vars

\* The text functions on their own: the entry filter on a name, and visits
\* of one detail page.
InitText ==
  /\ disk = <<>>
  /\ file = "ok"
  /\ InitRest
  /\ wall \in WallYears
  /\ TextRest

NextText ==
  \/ Filter
  \/ Open
  \/ Goto
  \/ Reload
  \/ Extract
  \/ NextRun

\* A reload that is due takes place: the waits and page.reload time out at
\* the latest.
SpecText == InitText /\ [][NextText]_vars /\ WF_vars(Reload)

\* ================================================================ claims
Concrete(d) == d # EmptyDate /\ d # TBD /\ d # NoneVal

Merged == op = "merge"

\* The positions of the batch that carry the sid.
Carrying(batch, sid) == {j \in DOMAIN batch : batch[j].sid = sid}

TagSet(seq) == {seq[i] : i \in DOMAIN seq}

IsPrefix(a, b) == Len(a) <= Len(b) /\ SubSeq(b, 1, Len(a)) = a

\* C1: merging a batch a second time into the store it was merged into
\* changes nothing: merge(merge(store, batch), batch) = merge(store, batch).
C1_MergeIdempotent ==
  Merged => merge_scraped_into_existing(existing, lastBatch) = existing

\* C1 witness: a merge that changed the store, of a batch that holds one sid
\* twice and carries a deadline, a listing date, a detail-page date and a
\* location.
C1_Witness ==
  /\ Merged
  /\ existing # pre
  /\ \E i, j \in DOMAIN lastBatch :
       i < j /\ lastBatch[i].sid = lastBatch[j].sid /\ lastBatch[i].sid # ""
  /\ \E i \in DOMAIN lastBatch : Truthy(lastBatch[i].deadline)
  /\ \E i \in DOMAIN lastBatch : Truthy(lastBatch[i].conf_start)
  /\ \E i \in DOMAIN lastBatch : lastBatch[i].dates # <<>>
  /\ \E i \in DOMAIN lastBatch : lastBatch[i].location # ""

\* C2: in every step of every merge and pass, a record's deadline changes
\* only from empty or "TBD" and only to a concrete date; a concrete deadline
\* stays as it is.
C2_DeadlineNeverReplaced ==
  [][\A i \in DOMAIN existing :
       /\ i \in DOMAIN existing'
       /\ existing'[i].deadline # existing[i].deadline
            => IsTBD(existing[i]) /\ Concrete(existing'[i].deadline)]_vars

\* C2 witness: a merge met a record with a concrete deadline and an entry of
\* the same sid that carries another deadline.
C2_Witness ==
  /\ Merged
  /\ \E i \in DOMAIN pre : \E j \in Carrying(lastBatch, pre[i].sid) :
       /\ pre[i].sid # ""
       /\ Concrete(pre[i].deadline)
       /\ Truthy(lastBatch[j].deadline)
       /\ lastBatch[j].deadline # pre[i].deadline

\* C3: a startDate whose day this engine parsed from source text is never
\* replaced afterwards, whatever its day of month.
C3_ParsedStartKept ==
  [][\A i \in parsedStart : existing'[i].startDate = existing[i].startDate]_vars

\* The date an entry carries: the detail-page date if there is one, else the
\* date parsed from the listing.
EntryDate(s) ==
  IF Truthy(s.conf_start) THEN s.conf_start ELSE parse_conf_dates(s.dates).start

\* C4: merging one entry that carries a parseable date into the record of
\* its sid, whose startDate is empty or low-confidence, sets the startDate
\* to the entry's date, from the listing or from the detail page alike.
C4_VagueStartTakesEntryDate ==
  (Merged /\ Len(lastBatch) = 1) =>
    \A i \in DOMAIN pre :
      (/\ pre[i].sid # ""
       /\ pre[i].sid = lastBatch[1].sid
       /\ IsVague(pre[i].startDate)
       /\ EntryDate(lastBatch[1]) # EmptyDate)
        => existing[i].startDate = EntryDate(lastBatch[1])

\* C5: a merge leaves a non-empty location as it is, and a country that is
\* set (neither empty nor "Unknown") as it is.
C5_LocationCountryKept ==
  Merged =>
    \A i \in DOMAIN pre :
      /\ pre[i].location # "" => existing[i].location = pre[i].location
      /\ pre[i].country \notin {"", "Unknown"} => existing[i].country = pre[i].country

\* C6: after a merge the tags of a record are those it had, in their order,
\* followed by the tags derived from the entries of its sid that it lacked:
\* the union of both, nothing removed.
C6_DiscUnion ==
  Merged =>
    \A i \in DOMAIN pre :
      /\ IsPrefix(pre[i].disc, existing[i].disc)
      /\ TagSet(existing[i].disc) =
           TagSet(pre[i].disc) \cup
             UNION {TagSet(detect_disciplines(lastBatch[j].category, lastBatch[j].name)) :
                      j \in IF pre[i].sid = "" THEN {}
                            ELSE Carrying(lastBatch, pre[i].sid)}

\* C6 witness: a merge added a tag to a record that had another one.
C6_Witness ==
  /\ Merged
  /\ \E i \in DOMAIN pre :
       /\ pre[i].disc # <<>>
       /\ Len(existing[i].disc) > Len(pre[i].disc)

\* C7: a merge leaves name, sid, ssrnLink, tier and url of every record that
\* was in the store as they were.
C7_IdentityFieldsKept ==
  Merged =>
    \A i \in DOMAIN pre :
      /\ existing[i].name = pre[i].name
      /\ existing[i].sid = pre[i].sid
      /\ existing[i].ssrnLink = pre[i].ssrnLink
      /\ existing[i].tier = pre[i].tier
      /\ existing[i].url = pre[i].url

\* C7 witness: a merge updated a record from an entry of its sid that has
\* another name and another link.
C7_Witness ==
  /\ Merged
  /\ \E i \in DOMAIN pre : \E j \in Carrying(lastBatch, pre[i].sid) :
       /\ pre[i].sid # ""
       /\ lastBatch[j].name # pre[i].name
       /\ lastBatch[j].ssrnLink # pre[i].ssrnLink
       /\ existing[i] # pre[i]

WithSid(batch) == SelectSeq(batch, LAMBDA s : s.sid # "")

\* C8: entries without a sid are dropped: the merge gives what it gives
\* without them, creates no record without a sid, and leaves the records
\* that have no sid as they were.
C8_NoSidDropped ==
  Merged =>
    /\ existing = merge_scraped_into_existing(pre, WithSid(lastBatch))
    /\ \A i \in DOMAIN existing : i > Len(pre) => existing[i].sid # ""
    /\ \A i \in DOMAIN pre : pre[i].sid = "" => existing[i] = pre[i]
    /\ WithSid(lastBatch) = <<>> => existing = pre

\* C8 witness: an entry without a sid was merged into a store that holds a
\* record without a sid.
C8_Witness ==
  /\ Merged
  /\ \E j \in DOMAIN lastBatch : lastBatch[j].sid = "" /\ Truthy(lastBatch[j].deadline)
  /\ \E i \in DOMAIN pre : pre[i].sid = "" /\ IsTBD(pre[i])

NewSids(store, batch) ==
  {batch[j].sid : j \in DOMAIN batch} \ ({""} \cup existing_sids(store))

\* C9: a merge appends exactly one record for each sid of the batch that the
\* store did not hold, however often the batch carries the sid; its deadline
\* is "TBD" if no entry of the sid carries one, and its startDate and
\* location are empty if no entry of the sid carries a date or a location.
C9_NewRecord ==
  Merged =>
    /\ Len(existing) = Len(pre) + Cardinality(NewSids(pre, lastBatch))
    /\ \A sid \in NewSids(pre, lastBatch) :
         LET at == {i \in DOMAIN existing : existing[i].sid = sid}
             es == Carrying(lastBatch, sid)
         IN /\ Cardinality(at) = 1
            /\ \A i \in at :
                 /\ i > Len(pre)
                 /\ (\A j \in es : lastBatch[j].deadline = NoneVal)
                      => existing[i].deadline = TBD
                 /\ (\A j \in es : lastBatch[j].dates = <<>>
                                   /\ lastBatch[j].conf_start = NoneVal)
                      => existing[i].startDate = EmptyDate
                 /\ (\A j \in es : lastBatch[j].location = "")
                      => existing[i].location = ""

\* C9 witness: a batch carried a new sid twice, with no deadline, and the
\* merge appended its record.
C9_Witness ==
  /\ Merged
  /\ \E sid \in NewSids(pre, lastBatch) :
       /\ Cardinality(Carrying(lastBatch, sid)) = 2
       /\ \A j \in Carrying(lastBatch, sid) : lastBatch[j].deadline = NoneVal
       /\ \E i \in DOMAIN existing : existing[i].sid = sid /\ existing[i].deadline = TBD

\* C10: the non-empty sids of the store are pairwise distinct.
C10_SidsDistinct ==
  \A i, j \in DOMAIN existing :
    (existing[i].sid = existing[j].sid /\ existing[i].sid # "") => i = j

\* C10 witness: after a record was created for a sid, a later merge met
\* the sid again.
C10_Witness ==
  /\ Merged
  /\ nops = 2
  /\ \E i \in DOMAIN pre : \E j \in Carrying(lastBatch, pre[i].sid) :
       /\ pre[i].sid # ""
       /\ pre[i].tier = ""
       /\ pre[i].id > 1

\* C11: a record created by a merge gets an id greater than the id of every
\* record that was in the store before it, the records created earlier in
\* the same merge included; so the ids of the store stay pairwise distinct.
C11_IdsIncrease ==
  [][/\ \A j \in DOMAIN existing' \ DOMAIN existing :
          \A i \in 1..(j - 1) : existing'[i].id < existing'[j].id
     /\ \A i, j \in DOMAIN existing' :
          existing'[i].id = existing'[j].id => i = j]_vars

\* C11 witness: a merge created a record in a store of two records whose
\* greatest id is not the last record's and is above the number of records.
C11_Witness ==
  /\ Merged
  /\ Len(pre) = 2
  /\ pre[1].id > pre[2].id + 2
  /\ Len(existing) = 3
  /\ existing[3].id = pre[1].id + 1

\* C12: no step of a merge or of a pass removes a record: the store on disk
\* and the store in memory keep every record they held, at its place, so
\* neither gets shorter.
C12_NoRecordRemoved ==
  [][/\ Len(disk') >= Len(disk)
     /\ Len(existing') >= Len(existing)
     /\ \A i \in DOMAIN disk :
          disk'[i].id = disk[i].id /\ disk'[i].sid = disk[i].sid
     /\ \A i \in DOMAIN existing :
          existing'[i].id = existing[i].id /\ existing'[i].sid = existing[i].sid]_vars

\* C12 witness: a full pass whose listings showed no record of the store
\* has written the store of two records, with a record more.
C12_Witness ==
  /\ op = "full"
  /\ Len(pre) = 2
  /\ \A i \in DOMAIN pre : pre[i].sid # "" => Carrying(lastBatch, pre[i].sid) = {}
  /\ Len(disk) > Len(pre)

\* The networks whose listing page showed the sid, among the entries the
\* listing filter kept.
ListedUnder(shown, sid) ==
  {n \in DOMAIN NETWORKS :
     \E k \in DOMAIN scrape_listing_page(shown[n], NETWORKS[n]) :
       scrape_listing_page(shown[n], NETWORKS[n])[k].sid = sid}

\* The discipline tag detect_disciplines gives for a network's label.
TagOf(net) ==
  CASE net = "Finance" -> "fin"
    [] net = "Accounting" -> "acct"
    [] net = "Economics" -> "econ"

\* The entries a full or new-only pass hands to the merge.
ReachingMerge == IF pc = "full" THEN seen ELSE new_entries(existing, seen)

\* C13: at the merge that ends a full or new-only pass, each entry handed to
\* the merge carries exactly the labels of the networks whose listing showed
\* its sid, and the record of that sid ends with the tag of each of them.
C13_CategoriesUnioned ==
  [][(pc \in {"full", "new"} /\ pc' = "idle") =>
       \A j \in DOMAIN ReachingMerge :
         /\ TagSet(ReachingMerge[j].category) =
              {NETWORKS[n] : n \in ListedUnder(listing, ReachingMerge[j].sid)}
         /\ ReachingMerge[j].sid # "" =>
              \E i \in DOMAIN existing' :
                /\ existing'[i].sid = ReachingMerge[j].sid
                /\ \A n \in ListedUnder(listing, ReachingMerge[j].sid) :
                     InSeq(TagOf(NETWORKS[n]), existing'[i].disc)]_vars

\* C13 witness: a full pass merged an entry listed under two networks into
\* a record of the store, which gained a tag.
C13_Witness ==
  /\ op = "full"
  /\ \E j \in DOMAIN lastBatch :
       /\ Len(lastBatch[j].category) = 2
       /\ \E i \in DOMAIN pre :
            /\ pre[i].sid = lastBatch[j].sid
            /\ Len(disk[i].disc) > Len(pre[i].disc)

\* The loop of the full pass loads the page of a sid when the sid is in
\* sids_to_visit and sid_to_url holds a link for it.
LoadsPageOf(visits, urls, sid) ==
  sid \in visits /\ sid \in DOMAIN urls /\ urls[sid] # ""

\* C14: a full pass loads the detail page of every sid the listings show
\* and the store does not hold, and of every record of the store that has a
\* source link and whose deadline is empty or "TBD" or whose startDate is
\* empty or low-confidence, shown by the listings or not.
C14_FullVisitsAll ==
  [][(pc = "idle" /\ pc' = "full") =>
       /\ \A j \in DOMAIN seen' :
            seen'[j].sid \notin existing_sids(existing') =>
              LoadsPageOf(toVisit', sid_to_url', seen'[j].sid)
       /\ \A i \in DOMAIN existing' :
            (/\ existing'[i].ssrnLink # ""
             /\ IsTBD(existing'[i]) \/ IsVague(existing'[i].startDate)) =>
              LoadsPageOf(toVisit', sid_to_url', existing'[i].sid)]_vars

\* The two stores hold the same records but for their deadlines.
SameButDeadline(old, new) ==
  /\ Len(new) = Len(old)
  /\ \A i \in DOMAIN old : [new[i] EXCEPT !.deadline = old[i].deadline] = old[i]

\* C15: in every step of a deadlines-only pass, a detail page is loaded only
\* for a record whose deadline was empty or "TBD" in the store the pass
\* loaded, no record is added to the store in memory or on disk, no field but
\* deadline changes, and the deadline of a record that had a concrete one
\* does not change.
C15_DeadlinesOnlyFrame ==
  [][pc = "deadlines" =>
       /\ (queue' # queue /\ fetch' # "none") => IsTBD(disk[Head(queue)])
       /\ SameButDeadline(existing, existing')
       /\ SameButDeadline(disk, disk')
       /\ \A i \in DOMAIN disk :
            ~IsTBD(disk[i]) => /\ existing'[i].deadline = disk[i].deadline
                               /\ disk'[i].deadline = disk[i].deadline]_vars

\* C15 witness: a deadlines-only pass has visited all it had to visit, in a
\* store that holds a record with a concrete deadline, and has found the
\* deadline of another record.
C15_Witness ==
  /\ pc = "deadlines"
  /\ queue = <<>>
  /\ \E i, j \in DOMAIN disk :
       /\ Concrete(disk[i].deadline)
       /\ IsTBD(disk[j])
       /\ Concrete(existing[j].deadline)

\* C16: every detail page a new-only pass loads is the page of a sid that
\* the store the pass loaded does not hold.
C16_NewOnlyVisitsNew ==
  [][(pc = "new" /\ queue' # queue) =>
       /\ fetch' # "none"
       /\ Head(queue) \notin existing_sids(disk)]_vars

\* C16 witness: a new-only pass has loaded its last page while the listings
\* also showed a sid the store holds.
C16_Witness ==
  /\ pc = "new"
  /\ queue = <<>>
  /\ fetch # "none"
  /\ \E j \in DOMAIN seen : seen[j].sid \in existing_sids(disk)

\* C17: the step of a list-only pass leaves the store file as it was, there
\* or missing, with what it held, and the pass is over with that step,
\* without a step that loads a detail page.
C17_ListOnlyNoWrite ==
  [][(op = "none" /\ op' = "list") =>
       /\ disk' = disk
       /\ file' = file
       /\ pc' = "idle"
       /\ fetch' = "none"]_vars

\* C17 witness: a list-only pass found a sid the store does not hold, on a
\* store that is not empty.
C17_Witness ==
  /\ op = "list"
  /\ pre # <<>>
  /\ \E j \in DOMAIN lastBatch :
       lastBatch[j].sid # "" /\ lastBatch[j].sid \notin existing_sids(pre)

\* C18: whatever happens during a pass, the death of the process included,
\* each step either leaves the store file as it was or leaves it completely
\* written; the file never holds part of a store.
C18_WriteAtomic ==
  [][(file' = file /\ disk' = disk) \/ file' = "ok"]_vars

\* C19: while the store file is missing or does not hold a complete store,
\* no step of any pass creates or changes it.
C19_NoWriteOnBadStore ==
  [][file # "ok" => (file' = file /\ disk' = disk)]_vars

\* What a pass has still to visit.
Remaining == IF pc = "full" THEN toVisit ELSE {queue[k] : k \in DOMAIN queue}

EmptyResult == DetailResult(NoneVal, NoneVal, <<>>)

\* The visit in hand got to the text of the announcement.
Extracted ==
  /\ dp = "done"
  /\ \/ load.goto = "page"
     \/ load.goto = "challenge" /\ load.reload = "page"

\* C21: during one visit of a detail page a bot challenge brings one reload
\* and no more; a challenge that is still there after the reload ends the
\* visit with no deadline and no conference date, and the visit returns, so
\* that the caller goes on to the next record.
C21_ChallengeReloadsOnce ==
  /\ [][/\ reloads' <= 1
        /\ dp = "challenged" =>
             /\ reloads = 0 /\ reloads' = 1
             /\ load.reload = "challenge" => (dp' = "done" /\ out' = EmptyResult)
        /\ dp # "challenged" => (reloads' = reloads \/ reloads' = 0)
        /\ (dp' = "done" /\ dp # "done") =>
             reloads' = IF load.goto = "challenge" THEN 1 ELSE 0]_vars
  /\ (dp = "challenged" /\ load.reload = "challenge") ~> (dp = "done")

\* C21 witness: the challenge stayed after the one reload of a page whose
\* text holds a deadline and a conference date, and the visit is over.
C21_Witness ==
  /\ dp = "done"
  /\ load = Load("challenge", "challenge")
  /\ reloads = 1
  /\ text = <<LnDeadline2026, LnConf>>
  /\ out = EmptyResult

\* C22: a deadline that a visit returns is none or a date whose year is in
\* the window 2025..2028, from the year-bearing and from the year-less
\* patterns alike.
C22_DeadlineInWindow ==
  dp = "done" => (out.deadline = NoneVal \/ InWindow(out.deadline))

\* ---------------------------------------------------------------- calendar
IsLeap(y) == (y % 4 = 0 /\ y % 100 # 0) \/ y % 400 = 0

DaysIn(y, m) ==
  IF m \in {4, 6, 9, 11} THEN 30
  ELSE IF m = 2 THEN (IF IsLeap(y) THEN 29 ELSE 28)
  ELSE 31

ValidDate(iso) ==
  /\ (iso \div 100) % 100 \in 1..12
  /\ iso % 100 \in 1..DaysIn(YearOf(iso), (iso \div 100) % 100)

\* The month and day of a date put into the year y.
InYear(iso, y) == (y * 10000) + (iso % 10000)

Qualifies(iso) == ValidDate(iso) /\ InWindow(iso)

NoDatedMatch(page) ==
  \A i \in DOMAIN DEADLINE_PATTERNS : re_search(DEADLINE_PATTERNS[i], page) = <<>>

\* The capture of the first year-less pattern that matches, <<>> for none.
FirstYearless(page) ==
  LET hits == {i \in DOMAIN NO_YEAR_PATTERNS :
                 re_search(NO_YEAR_PATTERNS[i], page) # <<>>}
  IN IF hits = {} THEN <<>>
     ELSE re_search(NO_YEAR_PATTERNS[CHOOSE i \in hits : \A j \in hits : i <= j],
                    page)

\* The year the claim gives a year-less date: the first of the as-of year,
\* the year after and the year before with which the date is a date of the
\* calendar in the window; NoneVal when there is none.
InferredDate(raw, as_of) ==
  LET md == parse_date_flexible(raw \o <<N(as_of)>>)
  IN IF md = NoneVal THEN NoneVal
     ELSE IF Qualifies(InYear(md, as_of)) THEN InYear(md, as_of)
     ELSE IF Qualifies(InYear(md, as_of + 1)) THEN InYear(md, as_of + 1)
     ELSE IF Qualifies(InYear(md, as_of - 1)) THEN InYear(md, as_of - 1)
     ELSE NoneVal

\* C23: when only a year-less pattern matches, the deadline returned has the
\* first of the years as-of, as-of + 1, as-of - 1 that makes it a date of the
\* calendar with its year in the window, and there is no deadline when no
\* such year is among the three; the as-of year is the year of the clock.
C23_YearInferred ==
  (Extracted /\ NoDatedMatch(text) /\ FirstYearless(text) # <<>>)
    => out.deadline = InferredDate(FirstYearless(text), wall)

\* C24: two visits of a page with the same text return the same deadline and
\* the same conference date, whatever the wall clock shows at each visit.
C24_ExtractionPure ==
  (Extracted /\ runs >= 2) => out = prev

\* The positions of the year-bearing patterns that match the text.
DatedMatches(page) ==
  {i \in DOMAIN DEADLINE_PATTERNS : re_search(DEADLINE_PATTERNS[i], page) # <<>>}

\* The positions of those whose capture parses to a date in the window.
DatedAccepted(page) ==
  {i \in DatedMatches(page) :
     /\ parse_date_flexible(re_search(DEADLINE_PATTERNS[i], page)) # NoneVal
     /\ InWindow(parse_date_flexible(re_search(DEADLINE_PATTERNS[i], page)))}

\* C25 as stated: the deadline returned is the normalised capture of the
\* first pattern, in list order, that matches the text, and the year-less
\* patterns are tried only when no year-bearing pattern matches.
C25_FirstMatchWins ==
  (Extracted /\ DatedMatches(text) # {}) =>
    out.deadline =
      parse_date_flexible(
        re_search(DEADLINE_PATTERNS[MinOf(DatedMatches(text))], text))

\* C25 amended: the deadline returned is the normalised capture of the first
\* pattern, in list order, whose capture parses to a date with its year in
\* the window; the year-less patterns are tried only when there is no such
\* year-bearing pattern.
C25_FirstAcceptedWins ==
  /\ (Extracted /\ DatedAccepted(text) # {}) =>
       out.deadline =
         parse_date_flexible(
           re_search(DEADLINE_PATTERNS[MinOf(DatedAccepted(text))], text))
  /\ (Extracted /\ DatedAccepted(text) = {} /\ out.deadline # NoneVal) =>
       FirstYearless(text) # <<>>

\* C25 witness: the first pattern that matches captured a date out of the
\* window, and the deadline is the capture of a later pattern.
C25_Witness ==
  /\ Extracted
  /\ text = <<LnDeadline2031, LnSubmitted>>
  /\ MinOf(DatedMatches(text)) < MinOf(DatedAccepted(text))
  /\ out.deadline = IsoDate(2026, 7, 4)

\* C26: is_non_conference keeps every name that holds a phrase of the
\* safelist, whatever phrases of the two denylists it holds as well.
C26_SafelistWins ==
  (dp = "filtered" /\ \E safe \in CONFERENCE_SAFELIST : Contains(item, safe))
    => ~verdict

\* ---------------------------------------------------------------- filter in the passes
\* C27: in a full and in a new-only pass the listing entries that reach the
\* merge are those that is_non_conference keeps: an entry it keeps is among
\* the entries of the pass and, if it has a sid, is a record of the store
\* after the pass; an entry it drops is not among the entries of the pass.
C27_FilterDecides ==
  [][(pc \in {"full", "new"} /\ pc' = "idle") =>
       \A n \in DOMAIN NETWORKS : \A k \in DOMAIN listing[n] :
         IF is_non_conference(listing[n][k].name)
           THEN \A j \in DOMAIN seen : seen[j].name # listing[n][k].name
           ELSE /\ HasSid(seen, listing[n][k].sid)
                /\ listing[n][k].sid # "" =>
                     HasSid(existing', listing[n][k].sid)]_vars

\* C28: the startDate of every record of the store is empty or a date of the
\* calendar, whatever days the listing dates and the detail page texts show.
C28_StartDateValid ==
  \A i \in DOMAIN existing :
    existing[i].startDate = EmptyDate \/ ValidDate(existing[i].startDate)

\* The record or entry c is the one whose page was loaded for sid.
OwnPage(c, sid) ==
  \/ sid # "" /\ c.sid = sid
  \/ c.ssrnLink = sid_to_url[sid]

\* C29: in a full pass, what a visit found on a detail page is written only
\* to the record of the store and to the scraped entry whose own page it is,
\* also when records or entries have no sid.
C29_OwnPageOnly ==
  [][(pc = "full" /\ pc' = "full") =>
       \A sid \in toVisit \ toVisit' :
         /\ \A i \in DOMAIN existing :
              existing'[i] # existing[i] => OwnPage(existing[i], sid)
         /\ \A j \in DOMAIN seen :
              seen'[j] # seen[j] => OwnPage(seen[j], sid)]_vars

\* C30: a new-only pass leaves every record that the store held at its
\* start as it was, in every field, on disk and in memory, also a record
\* whose sid the listings show again; all it does to the store is append
\* records of sids the store did not hold, and a pass that finds no new sid
\* returns at once with the store as it was.
C30_NewOnlyFrame ==
  [][/\ (pc = "new" \/ pc' = "new") =>
          /\ IsPrefix(disk, disk') /\ IsPrefix(disk, existing')
          /\ \A i \in DOMAIN disk' \ DOMAIN disk :
               /\ disk'[i].sid \notin existing_sids(disk)
               /\ HasSid(seen, disk'[i].sid)
          /\ disk' # disk => pc' = "idle"
     /\ (op = "none" /\ op' = "new" /\ pc = "idle") =>
          (disk' = disk /\ existing' = disk /\ file' = file /\ pc' = "idle")]_vars

\* C30 witness: a new-only pass is about to write; the listings showed a new
\* sid and also the sid of a record of the store, which a merge of all that
\* was listed would change.
C30_Witness ==
  /\ pc = "new"
  /\ queue = <<>>
  /\ new_entries(existing, seen) # <<>>
  /\ \E i \in DOMAIN existing :
       /\ HasSid(seen, existing[i].sid)
       /\ existing[i].sid # ""
       /\ merge_scraped_into_existing(existing, seen)[i] # existing[i]

====
